---- MODULE Spec2Model ----
(***************************************************************************)
(* ColorSpector (src/main.py): the colour processor, the colour history    *)
(* and the Tk handlers of ColorDetectorApp that drive them.                *)
(*                                                                         *)
(* Text is modelled as a sequence of one-character strings, so that        *)
(* str.upper, str.title, the "02x" format and the hex parser are computed  *)
(* character by character:  "#ff" is <<"#", "f", "f">>.                    *)
(***************************************************************************)
EXTENDS Integers, Sequences, FiniteSets, TLC

\* ------------------------------------------------------------------ bounds
\* Number of distinct pixel values the screen can show (a prefix of PixelList).
NumPixels == 2
\* ColorHistory on its own: longest sequence of add_color calls.
MaxPushes == 10
\* ColorHistory on its own: largest max_colors passed to the constructor.
MaxCapacity == 8
\* The static methods on their own: number of values each channel of an
\* argument is drawn from (a prefix of ChannelList).
NumChannels == 4

\* ------------------------------------------------------------------- text
LowerLetters ==
  <<"a","b","c","d","e","f","g","h","i","j","k","l","m",
    "n","o","p","q","r","s","t","u","v","w","x","y","z">>
UpperLetters ==
  <<"A","B","C","D","E","F","G","H","I","J","K","L","M",
    "N","O","P","Q","R","S","T","U","V","W","X","Y","Z">>
DecimalDigits == <<"0","1","2","3","4","5","6","7","8","9">>
\* digits produced by the "x" presentation type
HexDigits == DecimalDigits \o <<"a","b","c","d","e","f">>

\* the upper-case and the lower-case partner of each cased character
UpperOf == [c \in {LowerLetters[i] : i \in 1..26} |->
              UpperLetters[CHOOSE i \in 1..26 : LowerLetters[i] = c]]
LowerOf == [c \in {UpperLetters[i] : i \in 1..26} |->
              LowerLetters[CHOOSE i \in 1..26 : UpperLetters[i] = c]]
IsLower(c) == c \in DOMAIN UpperOf
IsUpper(c) == c \in DOMAIN LowerOf
IsCased(c) == IsLower(c) \/ IsUpper(c)
UpperChar(c) == IF IsLower(c) THEN UpperOf[c] ELSE c
LowerChar(c) == IF IsUpper(c) THEN LowerOf[c] ELSE c

\* str.upper()
upper(s) == [i \in 1..Len(s) |-> UpperChar(s[i])]
\* str.lower()
lower(s) == [i \in 1..Len(s) |-> LowerChar(s[i])]
\* str.title(): a cased character is upper-cased when it starts a word (the
\* previous character is not cased) and lower-cased otherwise.
title(s) ==
  [i \in 1..Len(s) |->
     IF i = 1 \/ ~IsCased(s[i-1]) THEN UpperChar(s[i]) ELSE LowerChar(s[i])]

RECURSIVE HexOfInt(_)
\* format(n, "x"): lowercase base 16, no padding
HexOfInt(n) ==
  IF n < 16 THEN <<HexDigits[n + 1]>>
  ELSE HexOfInt(n \div 16) \o <<HexDigits[(n % 16) + 1]>>

RECURSIVE DecimalOfInt(_)
\* format(n, "d")
DecimalOfInt(n) ==
  IF n < 10 THEN <<DecimalDigits[n + 1]>>
  ELSE DecimalOfInt(n \div 10) \o <<DecimalDigits[(n % 10) + 1]>>

RECURSIVE Repeat(_, _)
Repeat(c, k) == IF k <= 0 THEN <<>> ELSE <<c>> \o Repeat(c, k - 1)

\* f"{n:02x}": zero-padded on the left to a width of at least 2
Format02x_unpadded(n) == HexOfInt(n)
Format02x(n) == Repeat("0", 2 - Len(HexOfInt(n))) \o HexOfInt(n)
\* f"{n:<3}": space-padded on the right to a width of at least 3
FormatLeft3(n) == DecimalOfInt(n) \o Repeat(" ", 3 - Len(DecimalOfInt(n)))

\* ------------------------------------------------------------ conversions
\* ColorProcessor.rgb_to_hex
rgb_to_hex(rgb) == <<"#">> \o Format02x(rgb[1]) \o Format02x(rgb[2]) \o Format02x(rgb[3])

\* the value of each hex digit, of either case
HexValueOf ==
  [c \in {HexDigits[i] : i \in 1..16} \cup {UpperChar(HexDigits[i]) : i \in 1..16} |->
     (CHOOSE i \in 1..16 : HexDigits[i] = LowerChar(c)) - 1]
IsHexDigit(c) == c \in DOMAIN HexValueOf
HexValue(c) == HexValueOf[c]

\* webcolors.normalize_hex accepts "#" followed by 3 or 6 hex digits of either case
IsHexColor(s) ==
  /\ Len(s) \in {4, 7}
  /\ s[1] = "#"
  /\ \A i \in 2..Len(s) : IsHexDigit(s[i])

\* webcolors.normalize_hex: a 3-digit value doubles each digit; lower-cased
normalize_hex(s) ==
  IF Len(s) = 4
  THEN lower(<<"#", s[2], s[2], s[3], s[3], s[4], s[4]>>)
  ELSE lower(s)

\* webcolors.hex_to_rgb, for a value IsHexColor accepts
hex_to_rgb(hex_code) ==
  LET n == normalize_hex(hex_code) IN
  << 16 * HexValue(n[2]) + HexValue(n[3]),
     16 * HexValue(n[4]) + HexValue(n[5]),
     16 * HexValue(n[6]) + HexValue(n[7]) >>

\* ----------------------------------------------------------------- tables
\* The table the module builds when webcolors offers neither CSS3_HEX_TO_NAMES
\* nor css3_hex_to_names (the literal of lines 29-38), in list order.
CSS3_COLORS ==
  << << <<255, 255, 255>>, <<"w","h","i","t","e">> >>,
     << <<0, 0, 0>>,       <<"b","l","a","c","k">> >>,
     << <<255, 0, 0>>,     <<"r","e","d">> >>,
     << <<0, 255, 0>>,     <<"l","i","m","e">> >>,
     << <<0, 0, 255>>,     <<"b","l","u","e">> >>,
     << <<255, 255, 0>>,   <<"y","e","l","l","o","w">> >>,
     << <<255, 0, 255>>,   <<"m","a","g","e","n","t","a">> >>,
     << <<0, 255, 255>>,   <<"c","y","a","n">> >> >>

\* webcolors' own CSS3 hex-to-name mapping, which rgb_to_name consults and
\* from which lines 20-21 build the table when the library offers it: the
\* sixteen basic colours in the order of the mapping (an excerpt of the 138
\* distinct values, enough for the pixel values of PixelList).
WEBCOLORS_CSS3 ==
  << << <<0, 255, 255>>,   <<"c","y","a","n">> >>,
     << <<0, 0, 0>>,       <<"b","l","a","c","k">> >>,
     << <<0, 0, 255>>,     <<"b","l","u","e">> >>,
     << <<255, 0, 255>>,   <<"m","a","g","e","n","t","a">> >>,
     << <<128, 128, 128>>, <<"g","r","a","y">> >>,
     << <<0, 128, 0>>,     <<"g","r","e","e","n">> >>,
     << <<0, 255, 0>>,     <<"l","i","m","e">> >>,
     << <<128, 0, 0>>,     <<"m","a","r","o","o","n">> >>,
     << <<0, 0, 128>>,     <<"n","a","v","y">> >>,
     << <<128, 128, 0>>,   <<"o","l","i","v","e">> >>,
     << <<128, 0, 128>>,   <<"p","u","r","p","l","e">> >>,
     << <<255, 0, 0>>,     <<"r","e","d">> >>,
     << <<192, 192, 192>>, <<"s","i","l","v","e","r">> >>,
     << <<0, 128, 128>>,   <<"t","e","a","l">> >>,
     << <<255, 255, 255>>, <<"w","h","i","t","e">> >>,
     << <<255, 255, 0>>,   <<"y","e","l","l","o","w">> >> >>

\* the tables the import block can leave in CSS3_COLORS, by the branch taken
TableIds == {"fallback", "webcolors"}
TableOf(id) == IF id = "fallback" THEN CSS3_COLORS ELSE WEBCOLORS_CSS3

\* the mapping as the dictionary rgb_to_name looks the value up in
NameOfRgb ==
  [rgb \in {WEBCOLORS_CSS3[i][1] : i \in 1..Len(WEBCOLORS_CSS3)} |->
     WEBCOLORS_CSS3[CHOOSE i \in 1..Len(WEBCOLORS_CSS3) : WEBCOLORS_CSS3[i][1] = rgb][2]]

\* webcolors.rgb_to_name raises ValueError for a value without a name
ValueError == <<"ValueError">>
rgb_to_name(rgb) == IF rgb \in DOMAIN NameOfRgb THEN NameOfRgb[rgb] ELSE ValueError

\* sum((c1 - c2) ** 2 for c1, c2 in zip(rgb, requested_rgb))
Distance(rgb, requested_rgb) ==
  (rgb[1] - requested_rgb[1]) * (rgb[1] - requested_rgb[1])
  + (rgb[2] - requested_rgb[2]) * (rgb[2] - requested_rgb[2])
  + (rgb[3] - requested_rgb[3]) * (rgb[3] - requested_rgb[3])

\* min_distance = float('inf'): larger than every distance of 8-bit channels
Infinity == 3 * 255 * 255 + 1

RECURSIVE ClosestScan_last_minimum(_, _, _, _, _)
ClosestScan_last_minimum(table, requested_rgb, i, min_distance, closest_name) ==
  IF i > Len(table) THEN closest_name
  ELSE LET distance == Distance(table[i][1], requested_rgb) IN
       IF distance <= min_distance
       THEN ClosestScan_last_minimum(table, requested_rgb, i + 1, distance, table[i][2])
       ELSE ClosestScan_last_minimum(table, requested_rgb, i + 1, min_distance, closest_name)

RECURSIVE ClosestScan(_, _, _, _, _)
\* the loop of closest_color_name over the table from position i on, with the
\* running minimum and its name; only a strictly smaller distance replaces them
ClosestScan(table, requested_rgb, i, min_distance, closest_name) ==
  IF i > Len(table) THEN closest_name
  ELSE LET distance == Distance(table[i][1], requested_rgb) IN
       IF distance < min_distance
       THEN ClosestScan(table, requested_rgb, i + 1, distance, table[i][2])
       ELSE ClosestScan(table, requested_rgb, i + 1, min_distance, closest_name)

\* closest_color_name when CSS3_COLORS holds the given table
closest_color_name_in(table, requested_rgb) ==
  ClosestScan(table, requested_rgb, 1, Infinity, <<>>)

\* ColorProcessor.closest_color_name
closest_color_name(requested_rgb) == closest_color_name_in(CSS3_COLORS, requested_rgb)

\* the branch of get_color_name that produces the name
get_color_name_branch(rgb) ==
  IF rgb_to_name(rgb) # ValueError THEN "exact" ELSE "closest"

get_color_name_exact_raw(rgb) ==
  IF rgb_to_name(rgb) # ValueError
  THEN rgb_to_name(rgb)
  ELSE title(closest_color_name(rgb))

\* ColorProcessor.get_color_name
get_color_name(rgb) ==
  IF rgb_to_name(rgb) # ValueError
  THEN title(rgb_to_name(rgb))
  ELSE title(closest_color_name(rgb))

\* ------------------------------------------------------------------ state
VARIABLES
  frozen,           \* ColorProcessor.frozen
  current_rgb,      \* ColorProcessor.current_rgb
  current_hex,      \* ColorProcessor.current_hex
  current_name,     \* ColorProcessor.current_name
  max_colors,       \* ColorHistory.max_colors
  history,          \* ColorHistory.history, entry 1 the most recent
  swatch_bg,        \* background of each of ColorHistory.swatch_buttons
  swatch_commands,  \* click command of each swatch button (the hex it replays)
  freeze_var,       \* text of the freeze button
  status_bar,       \* text of the status bar, as a sequence of parts
  labels,           \* preview fill and the name, hex and rgb labels
  pending,          \* number of after() timers waiting to run update_color
  uncaught,         \* an exception left a handler (Tk reported it)
  last,             \* history variable: the handler that ran last, what it met
                    \* (kind) and its argument or the history it started from (arg)
  pushed            \* history variable: arguments of the direct add_color calls

vars ==
  << frozen, current_rgb, current_hex, current_name, max_colors, history,
     swatch_bg, swatch_commands, freeze_var, status_bar, labels, pending,
     uncaught, last, pushed >>

\* pixel values pyautogui.pixel may return, in the order the bound admits them
PixelList ==
  << <<255, 255, 255>>, <<10, 10, 10>>, <<0, 255, 0>>, <<255, 0, 0>>, <<0, 128, 0>> >>
Pixels == {PixelList[i] : i \in 1..NumPixels}

\* outcomes of pyautogui.pixel(x, y): a value, the fail-safe, any other error
Reads ==
  {[kind |-> "ok", rgb |-> p] : p \in Pixels}
  \cup {[kind |-> "FailSafeException", rgb |-> <<>>], [kind |-> "Exception", rgb |-> <<>>]}

\* ColorHistory.bg_light / ColorDetectorApp.bg_light
bg_light == <<"#","3","1","3","1","4","5">>
\* a swatch button without a click command
NoCommand == <<>>
\* the text the value labels are created with (a dash glyph)
Placeholder == <<"--">>

FreezeText == "Freeze Color"
UnfreezeText == "Unfreeze"

\* ---------------------------------------------------------- ColorProcessor
\* update_current_color storing the table's name as it is, without title()
update_current_color_untitled(rgb, hex_code) ==
  [current_rgb |-> rgb, current_hex |-> upper(hex_code),
   current_name |-> IF rgb_to_name(rgb) # ValueError
                    THEN rgb_to_name(rgb) ELSE closest_color_name(rgb)]

\* update_current_color storing the hex code as it was passed
update_current_color_as_passed(rgb, hex_code) ==
  [ current_rgb |-> rgb,
    current_hex |-> hex_code,
    current_name |-> get_color_name(rgb) ]

\* ColorProcessor.update_current_color: the three fields it assigns
update_current_color(rgb, hex_code) ==
  [current_rgb |-> rgb, current_hex |-> upper(hex_code), current_name |-> get_color_name(rgb)]

\* toggle_freeze that sets the flag instead of negating it
processor_toggle_freeze_set(f) == TRUE

\* ColorProcessor.toggle_freeze: the new value of frozen (also its return value)
processor_toggle_freeze(f) == ~f

\* ColorProcessor.get_pixel_color logs the error and raises it again
get_pixel_color(read) == read

\* ------------------------------------------------------------ ColorHistory
Min(a, b) == IF a <= b THEN a ELSE b

\* self.history[:self.max_colors], for max_colors >= 0
Truncate(hist, cap) == SubSeq(hist, 1, Min(cap, Len(hist)))

\* ColorHistory.update_swatches, given the buttons' present backgrounds
update_swatches(hist, bgs) ==
  [i \in 1..Len(bgs) |-> IF i <= Len(hist) THEN hist[i] ELSE bg_light]

\* add_color without the trim to max_colors
add_color_untrimmed(hist, hex_code, cap) ==
  IF hist = <<>> \/ hist[1] # hex_code THEN <<hex_code>> \o hist ELSE hist

\* add_color without the comparison with the most recent entry
add_color_no_dedup(hist, hex_code, cap) == Truncate(<<hex_code>> \o hist, cap)

\* add_color trimming from the front: it keeps the oldest max_colors entries
add_color_keep_oldest(hist, hex_code, cap) ==
  IF hist = <<>> \/ hist[1] # hex_code
  THEN LET all == <<hex_code>> \o hist IN
       SubSeq(all, Len(all) - Min(cap, Len(all)) + 1, Len(all))
  ELSE hist

\* add_color appending the new entry after the oldest one
add_color_append(hist, hex_code, cap) ==
  IF hist = <<>> \/ hist[1] # hex_code
  THEN Truncate(hist \o <<hex_code>>, cap)
  ELSE hist

\* add_color comparing the new entry with the oldest one instead of the newest
add_color_compare_tail(hist, hex_code, cap) ==
  IF hist = <<>> \/ hist[Len(hist)] # hex_code
  THEN Truncate(<<hex_code>> \o hist, cap)
  ELSE hist

\* ColorHistory.add_color: the new history
add_color(hist, hex_code, cap) ==
  IF hist = <<>> \/ hist[1] # hex_code
  THEN Truncate(<<hex_code>> \o hist, cap)
  ELSE hist

\* ColorHistory.add_color: the swatch backgrounds (refreshed only on insert)
add_color_swatches(hist, hex_code, cap, bgs) ==
  IF hist = <<>> \/ hist[1] # hex_code
  THEN update_swatches(add_color(hist, hex_code, cap), bgs)
  ELSE bgs

\* ColorHistory.bind_swatch_callbacks: button i replays history entry i
bind_swatch_callbacks(hist, commands) ==
  [i \in 1..Len(commands) |-> IF i <= Len(hist) THEN hist[i] ELSE commands[i]]

\* -------------------------------------------------------- ColorDetectorApp
\* The fields the handlers read and write, as one record.
App ==
  [ frozen |-> frozen, current_rgb |-> current_rgb, current_hex |-> current_hex,
    current_name |-> current_name, max_colors |-> max_colors, history |-> history,
    swatch_bg |-> swatch_bg, swatch_commands |-> swatch_commands,
    freeze_var |-> freeze_var, status_bar |-> status_bar, labels |-> labels,
    pending |-> pending, uncaught |-> uncaught ]

\* The next state's fields are those of record s.
Assign(s) ==
  /\ frozen' = s.frozen
  /\ current_rgb' = s.current_rgb
  /\ current_hex' = s.current_hex
  /\ current_name' = s.current_name
  /\ max_colors' = s.max_colors
  /\ history' = s.history
  /\ swatch_bg' = s.swatch_bg
  /\ swatch_commands' = s.swatch_commands
  /\ freeze_var' = s.freeze_var
  /\ status_bar' = s.status_bar
  /\ labels' = s.labels
  /\ pending' = s.pending
  /\ uncaught' = s.uncaught

\* The present state's fields are those of record s.
Is(s) ==
  /\ frozen = s.frozen
  /\ current_rgb = s.current_rgb
  /\ current_hex = s.current_hex
  /\ current_name = s.current_name
  /\ max_colors = s.max_colors
  /\ history = s.history
  /\ swatch_bg = s.swatch_bg
  /\ swatch_commands = s.swatch_commands
  /\ freeze_var = s.freeze_var
  /\ status_bar = s.status_bar
  /\ labels = s.labels
  /\ pending = s.pending
  /\ uncaught = s.uncaught

\* s with the processor's current colour replaced by the fields of c
SetCurrent(s, c) ==
  [s EXCEPT !.current_rgb = c.current_rgb,
            !.current_hex = c.current_hex,
            !.current_name = c.current_name]

\* ColorDetectorApp.update_ui_with_current_color
update_ui_with_current_color(s) ==
  [s EXCEPT !.labels =
     [ preview |-> s.current_hex,
       name_label |-> s.current_name,
       hex_label |-> s.current_hex,
       rgb_label |-> FormatLeft3(s.current_rgb[1]) \o <<",", " ">>
                     \o FormatLeft3(s.current_rgb[2]) \o <<",", " ">>
                     \o FormatLeft3(s.current_rgb[3]) ]]

\* update_color with only the fail-safe clause
except_clause_failsafe_only(kind) ==
  IF kind = "FailSafeException" THEN "FailSafeException" ELSE "none"

\* the except clause of update_color that catches an exception of class kind;
\* every error pyautogui.pixel raises is an Exception
except_clause(kind) ==
  IF kind = "FailSafeException" THEN "FailSafeException" ELSE "Exception"

\* the try statement without the call of update_current_color
sample_keeps_current(s, read) ==
  IF read.kind = "ok"
  THEN [update_ui_with_current_color(s) EXCEPT
          !.status_bar = <<"Detecting color at X: Y: ">>]
  ELSE [s EXCEPT !.status_bar = <<"An error occurred while detecting the color.">>]

\* update_color, the try statement run when not frozen (lines 513-531).
\* The pointer coordinates only reach the status text and are left out of it.
sample(s, read) ==
  LET got == get_pixel_color(read) IN
  IF got.kind = "ok"
  THEN LET hex_code == rgb_to_hex(got.rgb)
           s1 == SetCurrent(s, update_current_color(got.rgb, hex_code))
           s2 == update_ui_with_current_color(s1)
       IN  [s2 EXCEPT !.status_bar = <<"Detecting color at X: Y: ">>]
  ELSE IF except_clause(got.kind) = "FailSafeException"
  THEN [s EXCEPT !.status_bar =
          <<"PyAutoGUI fail-safe triggered. Please check your cursor position.">>]
  ELSE IF except_clause(got.kind) = "Exception"
  THEN [s EXCEPT !.status_bar = <<"An error occurred while detecting the color.">>]
  ELSE [s EXCEPT !.uncaught = TRUE]

\* the timer set inside the "if not frozen" block
schedule_next_when_live(s) ==
  IF s.uncaught \/ s.frozen THEN s ELSE [s EXCEPT !.pending = @ + 1]

\* self.root.after(50, self.update_color), reached unless an exception left
\* the handler before line 534
schedule_next(s) ==
  IF s.uncaught THEN s ELSE [s EXCEPT !.pending = @ + 1]

\* update_color without the test of frozen
update_color_ungated(s, read) == schedule_next(sample(s, read))

\* ColorDetectorApp.update_color
update_color(s, read) ==
  schedule_next(IF ~s.frozen THEN sample(s, read) ELSE s)

\* toggle_freeze recording the colour when detection resumes, not when it stops
toggle_freeze_record_on_unfreeze(s) ==
  LET now_frozen == ~s.frozen
      s1 == [s EXCEPT !.frozen = now_frozen]
  IN  IF now_frozen
      THEN [s1 EXCEPT
              !.freeze_var = UnfreezeText,
              !.status_bar = <<"Color frozen. Click 'Unfreeze' to continue detecting.">>]
      ELSE LET hist == add_color(s1.history, s1.current_hex, s1.max_colors) IN
           [s1 EXCEPT
              !.freeze_var = FreezeText,
              !.status_bar = <<"Point your cursor anywhere to detect colors...">>,
              !.history = hist,
              !.swatch_bg = add_color_swatches(s1.history, s1.current_hex,
                                               s1.max_colors, s1.swatch_bg),
              !.swatch_commands = bind_swatch_callbacks(hist, s1.swatch_commands)]

\* ColorDetectorApp.toggle_freeze
toggle_freeze(s) ==
  LET now_frozen == processor_toggle_freeze(s.frozen)
      s1 == [s EXCEPT !.frozen = now_frozen]
  IN  IF now_frozen
      THEN LET hist == add_color(s1.history, s1.current_hex, s1.max_colors) IN
           [s1 EXCEPT
              !.freeze_var = UnfreezeText,
              !.status_bar = <<"Color frozen. Click 'Unfreeze' to continue detecting.">>,
              !.history = hist,
              !.swatch_bg = add_color_swatches(s1.history, s1.current_hex,
                                               s1.max_colors, s1.swatch_bg),
              !.swatch_commands = bind_swatch_callbacks(hist, s1.swatch_commands)]
      ELSE [s1 EXCEPT
              !.freeze_var = FreezeText,
              !.status_bar = <<"Point your cursor anywhere to detect colors...">>]

\* select_history_color leaving frozen as it was
select_history_color_unfrozen(s, hex_code) ==
  LET s1 == SetCurrent(s, update_current_color(hex_to_rgb(hex_code), hex_code))
      s2 == update_ui_with_current_color(s1)
  IN  [s2 EXCEPT !.status_bar = <<"Selected color from history: ">> \o hex_code]

\* select_history_color that also records the selection in the history
select_history_color_recording(s, hex_code) ==
  LET s1 == SetCurrent(s, update_current_color(hex_to_rgb(hex_code), hex_code))
      s2 == update_ui_with_current_color(s1)
  IN  [s2 EXCEPT
         !.frozen = TRUE,
         !.freeze_var = UnfreezeText,
         !.history = add_color(s.history, upper(hex_code), s.max_colors),
         !.status_bar = <<"Selected color from history: ">> \o hex_code]

\* select_history_color leaving the text of the freeze button as it was
select_history_color_stale_button(s, hex_code) ==
  LET s1 == SetCurrent(s, update_current_color(hex_to_rgb(hex_code), hex_code))
      s2 == update_ui_with_current_color(s1)
  IN  [s2 EXCEPT
         !.frozen = TRUE,
         !.status_bar = <<"Selected color from history: ">> \o hex_code]

\* ColorDetectorApp.select_history_color; hex_to_rgb raises ValueError for a
\* value that is no hex colour, which leaves the handler
select_history_color(s, hex_code) ==
  IF ~IsHexColor(hex_code) THEN [s EXCEPT !.uncaught = TRUE]
  ELSE LET rgb == hex_to_rgb(hex_code)
           s1 == SetCurrent(s, update_current_color(rgb, hex_code))
           s2 == update_ui_with_current_color(s1)
       IN  [s2 EXCEPT
              !.frozen = TRUE,
              !.freeze_var = UnfreezeText,
              !.status_bar = <<"Selected color from history: ">> \o hex_code]

\* ColorDetectorApp.safe_copy; copied says whether pyperclip.copy succeeded
safe_copy(s, text, copied) ==
  IF copied
  THEN [s EXCEPT !.status_bar = <<"Copied '">> \o text \o <<"' to clipboard.">>]
  ELSE [s EXCEPT !.status_bar = <<"Clipboard copy failed. Is xclip or xsel installed?">>]

\* the texts of the three Copy buttons (Ctrl+C copies the name as well)
CopyTexts(s) ==
  { s.current_name,
    s.current_hex,
    DecimalOfInt(s.current_rgb[1]) \o <<",", " ">> \o DecimalOfInt(s.current_rgb[2])
      \o <<",", " ">> \o DecimalOfInt(s.current_rgb[3]) }

\* ---------------------------------------------------------- initial states
DefaultMaxColors == 8

\* ColorDetectorApp.__init__ up to line 251: the processor, the history and
\* the widgets as constructed, no timer scheduled yet
Constructed ==
  [ frozen |-> FALSE,
    current_rgb |-> <<255, 255, 255>>,
    current_hex |-> <<"#","F","F","F","F","F","F">>,
    current_name |-> <<"W","h","i","t","e">>,
    max_colors |-> DefaultMaxColors,
    history |-> <<>>,
    swatch_bg |-> [i \in 1..DefaultMaxColors |-> bg_light],
    swatch_commands |-> [i \in 1..DefaultMaxColors |-> NoCommand],
    freeze_var |-> FreezeText,
    status_bar |-> <<"Point your cursor anywhere to detect colors...">>,
    labels |-> [ preview |-> <<"#","f","f","f","f","f","f">>,
                 name_label |-> Placeholder,
                 hex_label |-> Placeholder,
                 rgb_label |-> Placeholder ],
    pending |-> 0,
    uncaught |-> FALSE ]

NoArg == <<>>

\* What a run of update_color met: no pixel is read while frozen (line 512).
Met(was_frozen, read) ==
  IF was_frozen
  THEN [op |-> "update_color", kind |-> "skipped", arg |-> NoArg]
  ELSE [op |-> "update_color", kind |-> read.kind, arg |-> read.rgb]

\* The application as __init__ leaves it: line 252 has run update_color once.
Init ==
  \E read \in Reads :
    /\ Is(update_color(Constructed, read))
    /\ last = Met(Constructed.frozen, read)
    /\ pushed = <<>>

\* ------------------------------------------------------------------ events
\* A timer fires: Tk removes it and runs update_color.
Tick ==
  /\ pending > 0
  /\ \E read \in Reads :
       /\ last' = Met(frozen, read)
       /\ Assign(update_color([App EXCEPT !.pending = @ - 1], read))
  /\ UNCHANGED pushed

\* The freeze button or Ctrl+F.
ToggleFreeze ==
  /\ Assign(toggle_freeze(App))
  /\ last' = [op |-> "toggle_freeze",
              kind |-> IF frozen THEN "unfreeze" ELSE "freeze",
              arg |-> history]
  /\ UNCHANGED pushed

\* A click on a swatch button that has a command: partial(callback, color)
\* runs the callback with the hex code bound to the button.
SelectHistoryColor ==
  /\ \E hex_code \in {swatch_commands[i] : i \in 1..Len(swatch_commands)} \ {NoCommand} :
       /\ Assign(select_history_color(App, hex_code))
       /\ last' = [op |-> "select_history_color",
                   kind |-> IF frozen THEN "frozen" ELSE "live",
                   arg |-> hex_code]
  /\ UNCHANGED pushed

\* A Copy button or Ctrl+C; the clipboard write succeeds or fails.
Copy ==
  /\ \E text \in CopyTexts(App), copied \in BOOLEAN :
       /\ Assign(safe_copy(App, text, copied))
       /\ last' = [op |-> "safe_copy", kind |-> IF copied THEN "ok" ELSE "failed",
                   arg |-> text]
  /\ UNCHANGED pushed

Next == Tick \/ ToggleFreeze \/ SelectHistoryColor \/ Copy

Spec == Init /\ [][Next]_vars

\* Tk's event loop runs every timer that is due.
FairSpec == Spec /\ WF_vars(Tick)

\* ------------------------------------------------- ColorHistory on its own
\* the k-th of a supply of pairwise distinct hex codes, as current_hex holds them
SampleHex(k) == upper(rgb_to_hex(<<(37 * k) % 256, (101 * k) % 256, 255 - k>>))

\* ColorHistory(max_colors) with no widgets set up, beside an idle processor
InitHistory ==
  \E cap \in 1..MaxCapacity :
    /\ Is([Constructed EXCEPT !.max_colors = cap,
                              !.swatch_bg = <<>>,
                              !.swatch_commands = <<>>])
    /\ last = [op |-> "ColorHistory", kind |-> "", arg |-> NoArg]
    /\ pushed = <<>>

\* the next argument: a hex code never pushed before, or the last one again
PushChoices ==
  {SampleHex(Cardinality({pushed[i] : i \in 1..Len(pushed)}) + 1)}
  \cup {pushed[i] : i \in {Len(pushed)} \ {0}}

\* A direct call add_color(hex_code).
AddColor ==
  /\ Len(pushed) < MaxPushes
  /\ \E hex_code \in PushChoices :
       /\ history' = add_color(history, hex_code, max_colors)
       /\ swatch_bg' = add_color_swatches(history, hex_code, max_colors, swatch_bg)
       /\ pushed' = Append(pushed, hex_code)
  /\ last' = [op |-> "add_color", kind |-> "", arg |-> history]
  /\ UNCHANGED << frozen, current_rgb, current_hex, current_name, max_colors,
                  swatch_commands, freeze_var, status_bar, labels, pending, uncaught >>

SpecHistory == InitHistory /\ [][AddColor]_vars

\* ----------------------------------------------- ColorProcessor on its own
\* hex codes a caller may pass beside an rgb: the encodings of the pixel
\* values, as rgb_to_hex gives them and as current_hex holds them
HexHints ==
  {rgb_to_hex(PixelList[i]) : i \in 1..Len(PixelList)}
  \cup {upper(rgb_to_hex(PixelList[i])) : i \in 1..Len(PixelList)}

InitProcessor ==
  /\ Is(Constructed)
  /\ last = [op |-> "ColorProcessor", kind |-> "", arg |-> NoArg]
  /\ pushed = <<>>

\* A direct call update_current_color(rgb, hex_code).
UpdateCurrentColor ==
  /\ \E i \in 1..Len(PixelList), hex_code \in HexHints :
       /\ LET c == update_current_color(PixelList[i], hex_code) IN
            /\ current_rgb' = c.current_rgb
            /\ current_hex' = c.current_hex
            /\ current_name' = c.current_name
       /\ last' = [op |-> "update_current_color", kind |-> "", arg |-> hex_code]
  /\ UNCHANGED << frozen, max_colors, history, swatch_bg, swatch_commands, freeze_var,
                  status_bar, labels, pending, uncaught, pushed >>

\* A direct call toggle_freeze() of the processor.
ProcessorToggleFreeze ==
  /\ frozen' = processor_toggle_freeze(frozen)
  /\ last' = [op |-> "processor_toggle_freeze", kind |-> "", arg |-> NoArg]
  /\ UNCHANGED << current_rgb, current_hex, current_name, max_colors, history, swatch_bg,
                  swatch_commands, freeze_var, status_bar, labels, pending, uncaught,
                  pushed >>

NextProcessor == UpdateCurrentColor \/ ProcessorToggleFreeze

SpecProcessor == InitProcessor /\ [][NextProcessor]_vars

\* ------------------------------------ select_history_color called directly
\* A direct call select_history_color(hex_code), with a hex code in either case.
SelectDirect ==
  /\ \E hex_code \in HexHints :
       /\ last' = [op |-> "select_history_color",
                   kind |-> IF frozen THEN "frozen" ELSE "live",
                   arg |-> hex_code]
       /\ Assign(select_history_color(App, hex_code))
  /\ UNCHANGED pushed

NextReplay == SelectDirect \/ UpdateCurrentColor \/ ProcessorToggleFreeze

SpecReplay == InitProcessor /\ [][NextReplay]_vars

\* ------------------------------------------ the static methods on their own
\* channel values the calls draw from: the extremes, values half-way between
\* table entries, and values of one and of two hex digits
ChannelList == <<0, 255, 64, 128, 10, 200, 127>>
Channels == {ChannelList[i] : i \in 1..NumChannels}
RgbInputs == {<<r, g, b>> : r \in Channels, g \in Channels, b \in Channels}

Unchanged == UNCHANGED << frozen, current_rgb, current_hex, current_name, max_colors,
                          history, swatch_bg, swatch_commands, freeze_var, status_bar,
                          labels, pending, uncaught, pushed >>

\* A call closest_color_name(rgb) under either table; arg is the argument and
\* the value returned.
CallClosestColorName ==
  /\ \E id \in TableIds, rgb \in RgbInputs :
       last' = [op |-> "closest_color_name", kind |-> id,
                arg |-> <<rgb, closest_color_name_in(TableOf(id), rgb)>>]
  /\ Unchanged

\* A call get_color_name(rgb); kind is the branch that produced the name.
CallGetColorName ==
  /\ \E rgb \in RgbInputs :
       last' = [op |-> "get_color_name", kind |-> get_color_name_branch(rgb),
                arg |-> <<rgb, get_color_name(rgb)>>]
  /\ Unchanged

\* A call rgb_to_hex(rgb).
CallRgbToHex ==
  /\ \E rgb \in RgbInputs :
       last' = [op |-> "rgb_to_hex", kind |-> "", arg |-> <<rgb, rgb_to_hex(rgb)>>]
  /\ Unchanged

NextStatic == CallClosestColorName \/ CallGetColorName \/ CallRgbToHex

SpecStatic == InitProcessor /\ [][NextStatic]_vars

\* ----------------------------------------------------------------- claims
\* A step whose next state has last.op = "update_color" is a run of
\* update_color: no other handler writes that value.

\* C1. Freeze gating: a run of update_color that starts with frozen true
\* leaves current_rgb, current_hex and current_name as they were, whatever
\* pixel the backend would return.
C1_FreezeGating ==
  [][ (frozen /\ last'.op = "update_color")
        => /\ current_rgb' = current_rgb
           /\ current_hex' = current_hex
           /\ current_name' = current_name ]_vars

\* a tick was skipped while the screen could show another colour
C1_Witness ==
  /\ frozen
  /\ last.op = "update_color" /\ last.kind = "skipped"
  /\ \E p \in Pixels : p # current_rgb

\* C2. History capacity: the history never holds more than max_colors
\* entries, and an insert into a full history keeps the newest max_colors - 1
\* old entries below the new one, dropping the oldest.
C2_Capacity ==
  /\ Len(history) <= max_colors
  /\ (last.op = "toggle_freeze" /\ Len(last.arg) = max_colors /\ history # last.arg)
       => /\ Len(history) = max_colors
          /\ \A i \in 1..(max_colors - 1) : history[i + 1] = last.arg[i]

\* an insert into a full history has happened
C2_Witness ==
  /\ last.op = "toggle_freeze"
  /\ Len(last.arg) = max_colors
  /\ history # last.arg
  /\ Len(history) = max_colors

C4_HistoryReplay ==
  /\ [](last.op = "select_history_color"
          => /\ frozen
             /\ current_rgb = hex_to_rgb(last.arg)
             /\ current_hex = last.arg)
  /\ [][ (frozen /\ last'.op \notin {"toggle_freeze", "select_history_color"})
           => /\ frozen'
              /\ current_rgb' = current_rgb
              /\ current_hex' = current_hex
              /\ current_name' = current_name ]_vars

\* a selection made while live, of a colour other than the one shown before
C4_Witness ==
  /\ last.op = "select_history_color" /\ last.kind = "live"
  /\ frozen
  /\ current_hex = last.arg
  /\ labels.hex_label = last.arg
  /\ Len(history) >= 2 /\ history[1] # last.arg

\* C5. Error resilience: a run of update_color whose pixel read fails (the
\* fail-safe or any other error) changes none of current_rgb, current_hex,
\* current_name, frozen and history, and no exception leaves the handler.
C5_ErrorResilience ==
  [][ (last'.op = "update_color" /\ last'.kind \in {"FailSafeException", "Exception"})
        => /\ current_rgb' = current_rgb
           /\ current_hex' = current_hex
           /\ current_name' = current_name
           /\ frozen' = frozen
           /\ history' = history
           /\ ~uncaught' ]_vars

\* a capture error met with a sampled colour and a history to lose
C5_Witness ==
  /\ last.op = "update_color" /\ last.kind = "Exception"
  /\ current_rgb # Constructed.current_rgb
  /\ history # <<>>
  /\ ~uncaught

\* C6. The history changes only in a freeze toggle that takes frozen from
\* false to true.
C6_HistoryOnlyOnFreezeEdge ==
  [][ history' # history
        => (~frozen /\ frozen' /\ last'.op = "toggle_freeze") ]_vars

\* a freeze toggle has inserted into a history that selections had replayed
C6_Witness ==
  /\ last.op = "toggle_freeze" /\ last.kind = "freeze"
  /\ history # last.arg
  /\ Len(history) >= 3
  /\ history[1] = history[3]

\* C7. Colour invariant: current_hex is the encoding of current_rgb up to
\* letter case and current_name is the name get_color_name gives current_rgb.
C7_ColorInvariant ==
  /\ lower(current_hex) = rgb_to_hex(current_rgb)
  /\ current_name = get_color_name(current_rgb)

\* a colour without an exact name, set by a selection from the history
C7_Witness ==
  /\ last.op = "select_history_color"
  /\ rgb_to_name(current_rgb) = ValueError
  /\ current_hex # rgb_to_hex(current_rgb)

\* C8. Tick scheduling: exactly one update_color timer is pending in every
\* state, whatever the runs of update_color met, and update_color runs again
\* and again for ever.
C8_TickScheduling ==
  /\ [](pending = 1)
  /\ []<>(last.op = "update_color")

\* a later run of update_color that met the fail-safe and set the next timer
C8_Witness ==
  /\ last.op = "update_color" /\ last.kind = "FailSafeException"
  /\ history # <<>>
  /\ pending = 1

\* C9. update_current_color(rgb, hex_code) stores the encoding of rgb even
\* when hex_code is the encoding of another colour.
C9_HintRecomputed ==
  last.op = "update_current_color" => lower(current_hex) = rgb_to_hex(current_rgb)

\* C10. Eviction order: after n pairwise distinct pushes into an empty
\* history of capacity c <= n, the history is the last c pushed values, the
\* last pushed first.
C10_EvictionOrder ==
  ( /\ Len(pushed) >= max_colors
    /\ \A i, j \in 1..Len(pushed) : i # j => pushed[i] # pushed[j] )
    => /\ Len(history) = max_colors
       /\ \A i \in 1..max_colors : history[i] = pushed[Len(pushed) - i + 1]

\* ten distinct pushes into a history of capacity eight
C10_Witness ==
  /\ max_colors = 8
  /\ Len(pushed) = 10
  /\ \A i, j \in 1..Len(pushed) : i # j => pushed[i] # pushed[j]
  /\ Len(history) = 8
  /\ history[1] = pushed[10]
  /\ history[8] = pushed[3]

\* the hex codes and names the replay example speaks of
Hex00ff00Lower == <<"#","0","0","f","f","0","0">>
Hex00ff00Upper == <<"#","0","0","F","F","0","0">>
NameGreen == <<"G","r","e","e","n">>
NameLime == <<"L","i","m","e">>

\* C11 as stated. Replay naming example: selecting the history entry
\* "#00ff00" ends with current_hex the string "#00ff00", current_name "Green"
\* and frozen true.
C11_ReplayGreen ==
  (last.op = "select_history_color" /\ lower(last.arg) = Hex00ff00Lower)
    => /\ current_hex = Hex00ff00Lower
       /\ current_name = NameGreen
       /\ frozen

\* C11 as amended. Selecting the history entry "#00ff00", in either letter
\* case, ends with current_hex "#00FF00", current_name "Lime" (the CSS3 name
\* of that value; green is #008000) and frozen true.
C11_ReplayLime ==
  (last.op = "select_history_color" /\ lower(last.arg) = Hex00ff00Lower)
    => /\ current_rgb = <<0, 255, 0>>
       /\ current_hex = Hex00ff00Upper
       /\ current_name = NameLime
       /\ frozen

\* "#00ff00" as the claim writes it was selected while live
C11_Witness ==
  /\ last.op = "select_history_color" /\ last.kind = "live"
  /\ last.arg = Hex00ff00Lower
  /\ frozen
  /\ labels.name_label = NameLime

\* the positions of a table whose distance to rgb is the smallest
MinimumPositions(table, rgb) ==
  {i \in 1..Len(table) :
     \A j \in 1..Len(table) : Distance(table[i][1], rgb) <= Distance(table[j][1], rgb)}

\* C12. Nearest match: closest_color_name(rgb) returns the name of a table
\* entry whose squared distance to rgb is the smallest over the table, among
\* the entries at that distance the first in table order, and a second call
\* with the same rgb returns the same name.
C12_NearestMatch ==
  last.op = "closest_color_name"
    => LET table == TableOf(last.kind)
           rgb == last.arg[1]
           first == CHOOSE i \in MinimumPositions(table, rgb) :
                      \A j \in MinimumPositions(table, rgb) : i <= j
       IN /\ MinimumPositions(table, rgb) # {}
          /\ last.arg[2] = table[first][2]
          /\ closest_color_name_in(table, rgb) = last.arg[2]

\* a value as far from black as from navy, and no entry nearer: black, the
\* earlier of the two, was returned
C12_Witness ==
  /\ last.op = "closest_color_name" /\ last.kind = "webcolors"
  /\ last.arg = << <<0, 0, 64>>, <<"b","l","a","c","k">> >>
  /\ Cardinality(MinimumPositions(WEBCOLORS_CSS3, <<0, 0, 64>>)) > 1

\* C13 as stated. Stored hex form: the stored current hex is the lower-case
\* string rgb_to_hex produces, and the hex pushed into the history on freeze
\* is that lower-case form.
C13_StoredLowercase ==
  /\ (last.op = "update_color" /\ last.kind = "ok")
       => current_hex = rgb_to_hex(last.arg)
  /\ (last.op = "toggle_freeze" /\ last.kind = "freeze")
       => history[1] = lower(history[1])

\* C13 as amended. rgb_to_hex produces lower case, update_current_color stores
\* the upper-case form of it, the hex label and the preview show the stored
\* string as it is, and every history entry is the upper-case form.
C13_StoredUppercase ==
  /\ (last.op = "update_color" /\ last.kind = "ok")
       => /\ rgb_to_hex(last.arg) = lower(rgb_to_hex(last.arg))
          /\ current_hex = upper(rgb_to_hex(last.arg))
          /\ labels.hex_label = current_hex
          /\ labels.preview = current_hex
  /\ (last.op = "toggle_freeze" /\ last.kind = "freeze")
       => history[1] = upper(rgb_to_hex(current_rgb))
  /\ \A i \in 1..Len(history) : history[i] = upper(history[i])

\* a colour whose encoding has letters was sampled and then frozen: the two
\* letter cases differ
C13_Witness ==
  /\ last.op = "toggle_freeze" /\ last.kind = "freeze"
  /\ history # <<>>
  /\ history[1] = current_hex
  /\ rgb_to_hex(current_rgb) # current_hex
  /\ labels.hex_label = current_hex

\* the entries of either table whose rgb is the given value
EntriesOf(rgb) ==
  {<<id, i>> \in TableIds \X (1..Len(WEBCOLORS_CSS3)) :
     i <= Len(TableOf(id)) /\ TableOf(id)[i][1] = rgb}

\* C14 as stated. Exact match: for every (rgb, name) pair of the reference
\* table, get_color_name(rgb) returns that pair's name without taking the
\* nearest-match branch, and the nearest-match scan returns the same for rgb.
C14_ExactMatch ==
  last.op = "get_color_name"
    => \A e \in EntriesOf(last.arg[1]) :
         LET table == TableOf(e[1]) IN
         /\ last.kind = "exact"
         /\ last.arg[2] = table[e[2]][2]
         /\ closest_color_name_in(table, last.arg[1]) = last.arg[2]

\* C14 as amended. For every (rgb, name) pair of the reference table,
\* get_color_name(rgb) returns that pair's name in title case ("White" for
\* "white") without taking the nearest-match branch, and the nearest-match
\* scan returns the pair's name for rgb, so its title-cased result agrees.
C14_ExactMatchTitled ==
  last.op = "get_color_name"
    => \A e \in EntriesOf(last.arg[1]) :
         LET table == TableOf(e[1]) IN
         /\ last.kind = "exact"
         /\ last.arg[2] = title(table[e[2]][2])
         /\ closest_color_name_in(table, last.arg[1]) = table[e[2]][2]
         /\ title(closest_color_name_in(table, last.arg[1])) = last.arg[2]

\* get_color_name was called with the rgb of an entry of both tables
C14_Witness ==
  /\ last.op = "get_color_name" /\ last.kind = "exact"
  /\ last.arg = << <<255, 0, 255>>, <<"M","a","g","e","n","t","a">> >>
  /\ Cardinality(EntriesOf(last.arg[1])) = 2

\* C15. Hex round trip: for every rgb with channels in 0..255, rgb_to_hex(rgb)
\* is "#" followed by exactly six hex digits, and decoding that string gives
\* rgb back.
C15_HexRoundTrip ==
  last.op = "rgb_to_hex"
    => LET rgb == last.arg[1]
           hex == last.arg[2]
       IN /\ Len(hex) = 7
          /\ hex[1] = "#"
          /\ \A i \in 2..7 : \E d \in 1..16 : hex[i] = HexDigits[d]
          /\ IsHexColor(hex)
          /\ hex_to_rgb(hex) = rgb

\* a value with a channel of one hex digit and a channel with letters
C15_Witness ==
  /\ last.op = "rgb_to_hex"
  /\ last.arg = << <<0, 255, 64>>, <<"#","0","0","f","f","4","0">> >>

\* C16. frozen starts false and changes only by a freeze toggle, which negates
\* it, or by a history selection, which sets it to true; no run of
\* update_color and no copy changes it.
C16_FrozenChanges ==
  /\ ~frozen
  /\ [][ /\ last'.op = "toggle_freeze" => frozen' = ~frozen
         /\ last'.op = "select_history_color" => frozen'
         /\ last'.op \in {"update_color", "safe_copy"} => frozen' = frozen
         /\ frozen' # frozen => last'.op \in {"toggle_freeze", "select_history_color"}
       ]_vars

\* a toggle has negated frozen back to false after a selection had set it
C16_Witness ==
  /\ last.op = "toggle_freeze" /\ last.kind = "unfreeze"
  /\ ~frozen
  /\ history # <<>>
  /\ current_hex # history[1]

\* C17. Live sampling: a run of update_color while frozen is false whose pixel
\* read succeeds with value p sets current_rgb to p, current_hex to the
\* #RRGGBB encoding of p (in the stored, upper-case form) and current_name to
\* get_color_name(p); and after an unfreeze, unless the colour is frozen again
\* or the read fails, update_color eventually runs and the current colour is
\* its sample.
C17_LiveSampling ==
  /\ [][ (~frozen /\ last'.op = "update_color" /\ last'.kind = "ok")
           => /\ current_rgb' = last'.arg
              /\ current_hex' = upper(rgb_to_hex(last'.arg))
              /\ hex_to_rgb(current_hex') = last'.arg
              /\ current_name' = get_color_name(last'.arg)
       ]_vars
  /\ (last.op = "toggle_freeze" /\ ~frozen)
       ~> \/ frozen
          \/ /\ last.op = "update_color"
             /\ last.kind \in {"FailSafeException", "Exception"}
          \/ /\ last.op = "update_color" /\ last.kind = "ok"
             /\ current_rgb = last.arg
             /\ current_hex = upper(rgb_to_hex(last.arg))

\* after an unfreeze a sample has replaced the colour that was pinned
C17_Witness ==
  /\ ~frozen
  /\ last.op = "update_color" /\ last.kind = "ok"
  /\ history # <<>>
  /\ current_rgb = last.arg
  /\ current_hex # history[1]

\* C18. Immediately after a freeze toggle that takes frozen from false to
\* true, history entry 0 is the current hex.
C18_FreezeRecordsCurrent ==
  (last.op = "toggle_freeze" /\ last.kind = "freeze")
    => /\ frozen
       /\ history # <<>>
       /\ history[1] = current_hex

\* a freeze put a new entry in front of an earlier, different one
C18_Witness ==
  /\ last.op = "toggle_freeze" /\ last.kind = "freeze"
  /\ Len(history) >= 2
  /\ history # last.arg
  /\ history[1] = current_hex
  /\ history[2] # current_hex

\* C19. Whenever frozen is true, the current hex is one of the history entries.
C19_FrozenInHistory ==
  frozen => \E i \in 1..Len(history) : history[i] = current_hex

\* frozen by a selection of an entry that is not the most recent one
C19_Witness ==
  /\ frozen
  /\ last.op = "select_history_color"
  /\ history[1] # current_hex
  /\ \E i \in 2..Len(history) : history[i] = current_hex

\* C20. No two neighbouring history entries are equal, also after the
\* truncation at capacity; equal entries at positions that are not neighbours
\* do occur.
C20_NoNeighbouringDuplicates ==
  \A i \in 1..(Len(history) - 1) : history[i] # history[i + 1]

\* a full history in which an entry occurs twice, apart
C20_Witness ==
  /\ Len(history) = max_colors
  /\ \E i, j \in 1..Len(history) : j > i + 1 /\ history[i] = history[j]

\* C21. The label never drifts from the state: after every freeze toggle,
\* history selection, copy and run of update_color, the text of the freeze
\* button is "Unfreeze" exactly when frozen is true and "Freeze Color" exactly
\* when frozen is false.
C21_ButtonFollowsFrozen ==
  /\ frozen <=> freeze_var = UnfreezeText
  /\ ~frozen <=> freeze_var = FreezeText

\* a selection made while detection was live froze the colour without a
\* toggle, and the button reads "Unfreeze"
C21_Witness ==
  /\ last.op = "select_history_color" /\ last.kind = "live"
  /\ frozen
  /\ freeze_var = UnfreezeText

====
